---- MODULE Spec2Model ----
(***************************************************************************)
(* Model of src/index.ts (and its compiled form src/index.js): a script    *)
(* that looks up the element 'people-list' and, when it exists, walks      *)
(* complexArray and appends one 'person-card' div per person.              *)
(*                                                                         *)
(* Representation choices                                                  *)
(*  - A JavaScript string is a sequence of lexemes: each lexeme is either  *)
(*    an HTML tag ("<li>", "</li>", ...) or a run of characters holding no *)
(*    markup.  Concatenation is \o; Chars(s) is the string's characters.   *)
(*  - A value that may be null or undefined is a record with a field       *)
(*    'type' ("undefined", "null", "number", "string") and, when present,  *)
(*    a field 'value'.                                                     *)
(*  - A Date is its time value in minutes since 1970-01-01T00:00Z (the     *)
(*    millisecond time value divided by 60000; all dates of the model are  *)
(*    whole minutes).                                                      *)
(*  - A DOM subtree is a table of nodes in document order; node 1 is the   *)
(*    root; each node has a tag, a class and its child list, whose entries *)
(*    are text runs or references to later nodes.                          *)
(***************************************************************************)
EXTENDS Integers, Sequences, FiniteSets, TLC

VARIABLES
  complexArray,        \* the Person[] of index.ts:95
  timeZoneOffset,      \* host time zone, minutes east of UTC (environment)
  document,            \* [hasPeopleList: BOOLEAN, children: Seq(element)]
  preexisting,         \* history: children of 'people-list' before the script ran
  peopleListElement,   \* result of getElementById: "unset", "null" or "element"
  index,               \* position of forEach in complexArray (0 = not started)
  personCard,          \* the card under construction, or NoCard
  formattedBirthdate,  \* the callback's local of that name
  created,             \* number of document.createElement calls so far
  thrown,              \* TRUE once an exception escaped the script
  pc                   \* position of the script

vars == <<complexArray, timeZoneOffset, document, preexisting, peopleListElement,
          index, personCard, formattedBirthdate, created, thrown, pc>>

\* Largest number of records in an input sequence of SpecRender.
MaxRecords == 2

-----------------------------------------------------------------------------
(* JavaScript values *)

Undefined == [type |-> "undefined"]
Null == [type |-> "null"]
Num(n) == [type |-> "number", value |-> n]
Str(s) == [type |-> "string", value |-> s]

\* x === null || x === undefined
IsNullish(x) == x.type \in {"null", "undefined"}

\* The characters of a string: its lexemes written one after the other.
RECURSIVE Chars(_)
Chars(s) == IF s = <<>> THEN "" ELSE Head(s) \o Chars(Tail(s))

\* String(n) for an integer n, as a one-lexeme string
NumberToString(n) == <<ToString(n)>>

\* `${x}` for a non-nullish value of the model
TemplateString(x) ==
  IF x.type = "number" THEN NumberToString(x.value) ELSE x.value

-----------------------------------------------------------------------------
(* Dates *)

\* Days from 1970-01-01 to the proleptic Gregorian date y-m-d.
DaysFromCivil(y, m, d) ==
  LET yy  == IF m <= 2 THEN y - 1 ELSE y
      era == yy \div 400
      yoe == yy - era * 400
      mp  == IF m > 2 THEN m - 3 ELSE m + 9
      doy == (153 * mp + 2) \div 5 + d - 1
      doe == yoe * 365 + yoe \div 4 - yoe \div 100 + doy
  IN  era * 146097 + doe - 719468

\* The proleptic Gregorian date of day number z (days since 1970-01-01).
CivilFromDays(z) ==
  LET zz  == z + 719468
      era == zz \div 146097
      doe == zz - era * 146097
      yoe == (doe - doe \div 1460 + doe \div 36524 - doe \div 146096) \div 365
      doy == doe - (365 * yoe + yoe \div 4 - yoe \div 100)
      mp  == (5 * doy + 2) \div 153
      d   == doy - (153 * mp + 2) \div 5 + 1
      m   == IF mp < 10 THEN mp + 3 ELSE mp - 9
      y   == yoe + era * 400
  IN  [year |-> IF m <= 2 THEN y + 1 ELSE y, month |-> m, day |-> d]

\* new Date("YYYY-MM-DD"): a date-only ISO string is midnight UTC of that day.
NewDate(iso) == DaysFromCivil(iso.year, iso.month, iso.day) * 1440

MonthLong ==
  <<"January", "February", "March", "April", "May", "June", "July",
    "August", "September", "October", "November", "December">>

\* year: "numeric" prints the year of the era, without the era: astronomical
\* year 0 is 1 BC and prints 1, year -1 is 2 BC and prints 2.
YearOfEra(year) == IF year >= 1 THEN year ELSE 1 - year

\* date.toLocaleDateString("en-GB", {day: "numeric", month: "long", year: "numeric"})
\* No timeZone option is passed, so the fields are those of the host's local time.
ToLocaleDateString(t, tz) ==
  LET local == CivilFromDays((t + tz) \div 1440)
  IN  ToString(local.day) \o " " \o MonthLong[local.month] \o " "
        \o ToString(YearOfEra(local.year))

-----------------------------------------------------------------------------
(* The DOM and the HTML fragment parser behind the innerHTML setter.        *)
(* Only the tags the template writes, plus <li> and </li> inside record     *)
(* strings, are lexemes; every other lexeme is character data.              *)

StartTags ==
  {"<h3>", "<p>", "<p class=\"greet\">", "<strong>", "<ul class=\"skills\">", "<li>"}
EndTags == {"</h3>", "</p>", "</strong>", "</ul>", "</li>"}

TagName(lexeme) ==
  CASE lexeme \in {"<h3>", "</h3>"} -> "h3"
    [] lexeme \in {"<p>", "<p class=\"greet\">", "</p>"} -> "p"
    [] lexeme \in {"<strong>", "</strong>"} -> "strong"
    [] lexeme \in {"<ul class=\"skills\">", "</ul>"} -> "ul"
    [] lexeme \in {"<li>", "</li>"} -> "li"

ClassName(lexeme) ==
  CASE lexeme = "<p class=\"greet\">" -> "greet"
    [] lexeme = "<ul class=\"skills\">" -> "skills"
    [] OTHER -> ""

TextKid(s) == [kind |-> "text", text |-> s, node |-> 0]
ElementKid(n) == [kind |-> "element", text |-> "", node |-> n]

\* A parser state: the node table and the stack of open elements (ids, the
\* last one is the current node).  Node 1 is the root of the fragment.
EmptyTree == <<[tag |-> "#root", class |-> "", kids |-> <<>>]>>
NewParser == [nodes |-> EmptyTree, open |-> <<1>>]

CurrentNode(t) == t.open[Len(t.open)]
CurrentTag(t) == t.nodes[CurrentNode(t)].tag
Pop(t) == [t EXCEPT !.open = SubSeq(@, 1, Len(@) - 1)]

InsertText(t, s) ==
  [t EXCEPT !.nodes[CurrentNode(t)].kids = Append(@, TextKid(s))]

InsertElement(t, tag, class) ==
  LET id == Len(t.nodes) + 1
  IN  [nodes |-> Append([t.nodes EXCEPT ![CurrentNode(t)].kids =
                           Append(@, ElementKid(id))],
                        [tag |-> tag, class |-> class, kids |-> <<>>]),
       open  |-> Append(t.open, id)]

\* Pop elements until one with the given tag has been popped.
RECURSIVE PopUntil(_, _)
PopUntil(t, tag) ==
  IF Len(t.open) <= 1 THEN t
  ELSE IF CurrentTag(t) = tag THEN Pop(t)
  ELSE PopUntil(Pop(t), tag)

\* Generate implied end tags (li and p are the implied ones of this tag set).
RECURSIVE ImpliedEndTags(_, _)
ImpliedEndTags(t, except) ==
  IF Len(t.open) > 1 /\ CurrentTag(t) \in ({"li", "p"} \ {except})
  THEN ImpliedEndTags(Pop(t), except)
  ELSE t

\* "Has an element in scope": going down the stack, the target is met before
\* any boundary element.
RECURSIVE InScopeFrom(_, _, _, _)
InScopeFrom(t, i, tag, boundary) ==
  IF i = 0 THEN FALSE
  ELSE IF t.nodes[t.open[i]].tag = tag THEN TRUE
  ELSE IF t.nodes[t.open[i]].tag \in boundary THEN FALSE
  ELSE InScopeFrom(t, i - 1, tag, boundary)

InScope(t, tag) == InScopeFrom(t, Len(t.open), tag, {"#root"})
InListItemScope(t, tag) == InScopeFrom(t, Len(t.open), tag, {"#root", "ul"})
InButtonScope(t, tag) == InScopeFrom(t, Len(t.open), tag, {"#root"})

CloseElement(t, tag) == PopUntil(ImpliedEndTags(t, tag), tag)
ClosePIfInButtonScope(t) ==
  IF InButtonScope(t, "p") THEN CloseElement(t, "p") ELSE t

\* The <li> start tag first looks down the stack for an open li to close; the
\* search passes p and non-special elements and stops at any other special one.
RECURSIVE OpenLiFrom(_, _)
OpenLiFrom(t, i) ==
  IF i = 0 THEN FALSE
  ELSE IF t.nodes[t.open[i]].tag = "li" THEN TRUE
  ELSE IF t.nodes[t.open[i]].tag \in {"p", "strong"} THEN OpenLiFrom(t, i - 1)
  ELSE FALSE

StartTag(t, lexeme) ==
  LET tag == TagName(lexeme)
      class == ClassName(lexeme)
  IN  CASE tag = "li" ->
             LET a == IF OpenLiFrom(t, Len(t.open)) THEN CloseElement(t, "li") ELSE t
             IN  InsertElement(ClosePIfInButtonScope(a), tag, class)
        [] tag = "h3" ->
             LET a == ClosePIfInButtonScope(t)
                 b == IF CurrentTag(a) = "h3" THEN Pop(a) ELSE a
             IN  InsertElement(b, tag, class)
        [] tag \in {"p", "ul"} -> InsertElement(ClosePIfInButtonScope(t), tag, class)
        [] tag = "strong" -> InsertElement(t, tag, class)

\* </strong> always meets the strong element the template opened two lexemes
\* earlier as the current node, so the adoption agency algorithm pops it.
EndTag(t, lexeme) ==
  LET tag == TagName(lexeme)
  IN  CASE tag = "li" ->
             IF InListItemScope(t, "li") THEN CloseElement(t, "li") ELSE t
        [] tag = "p" ->
             IF InButtonScope(t, "p") THEN CloseElement(t, "p")
             ELSE CloseElement(InsertElement(t, "p", ""), "p")
        [] tag \in {"h3", "ul"} ->
             IF InScope(t, tag) THEN PopUntil(ImpliedEndTags(t, ""), tag) ELSE t
        [] tag = "strong" ->
             IF CurrentTag(t) = "strong" THEN Pop(t) ELSE t

TreeStep(t, lexeme) ==
  IF lexeme \in StartTags THEN StartTag(t, lexeme)
  ELSE IF lexeme \in EndTags THEN EndTag(t, lexeme)
  ELSE InsertText(t, lexeme)

\* The lexemes html[lo..hi] fed to the tree builder in order (the range is
\* halved, and the left half's result inspected before the right half runs,
\* so that the evaluation stays shallow; the stack always holds the root).
RECURSIVE TreeBuild(_, _, _, _)
TreeBuild(t, html, lo, hi) ==
  IF lo > hi THEN t
  ELSE IF lo = hi THEN TreeStep(t, html[lo])
  ELSE LET mid == (lo + hi) \div 2
           left == TreeBuild(t, html, lo, mid)
       IN  IF Len(left.open) > 0 THEN TreeBuild(left, html, mid + 1, hi) ELSE left

\* element.innerHTML = html: the element's new children, as a node table.
ParseFragment(html) == TreeBuild(NewParser, html, 1, Len(html)).nodes

\* node.textContent
RECURSIVE KidsText(_, _)
KidsText(nodes, kids) ==
  IF kids = <<>> THEN ""
  ELSE (IF Head(kids).kind = "text" THEN Head(kids).text
        ELSE KidsText(nodes, nodes[Head(kids).node].kids))
       \o KidsText(nodes, Tail(kids))

TextContent(nodes, n) == KidsText(nodes, nodes[n].kids)

\* The element children of node n with the given tag, in document order.
RECURSIVE ChildElementsOf(_, _, _)
ChildElementsOf(nodes, kids, tag) ==
  IF kids = <<>> THEN <<>>
  ELSE (IF Head(kids).kind = "element" /\ nodes[Head(kids).node].tag = tag
        THEN <<Head(kids).node>> ELSE <<>>)
       \o ChildElementsOf(nodes, Tail(kids), tag)

ChildElements(nodes, n, tag) == ChildElementsOf(nodes, nodes[n].kids, tag)

\* querySelector(tag.class) / querySelector(tag) from the root: the first match
\* in document order, 0 when there is none.
Matches(nodes, tag, class) ==
  {n \in 2..Len(nodes) : nodes[n].tag = tag /\ (class = "" \/ nodes[n].class = class)}

QuerySelector(nodes, tag, class) ==
  IF Matches(nodes, tag, class) = {} THEN 0
  ELSE CHOOSE n \in Matches(nodes, tag, class) :
         \A m \in Matches(nodes, tag, class) : n <= m

-----------------------------------------------------------------------------
(* The records *)

\* Mutant: greet written as an arrow function, whose `this` is not the record.
GreetArrow(this) == <<"Hello, I'm ", "undefined">>

\* greet: function () { return `Hello, I'm ${this.name}`; }
Greet(this) == <<"Hello, I'm ">> \o this.name

Alice ==
  [id |-> 1, name |-> <<"Alice">>, isActive |-> TRUE, age |-> 25,
   skills |-> << <<"JavaScript">>, <<"TypeScript">>, <<"React">> >>,
   details |-> [address |-> <<"123 Main St">>, city |-> <<"Wonderland">>,
                zipCode |-> 12345],
   score |-> Null, status |-> Undefined,
   birthdate |-> NewDate([year |-> 1998, month |-> 5, day |-> 15])]

Bob ==
  [id |-> 2, name |-> <<"Bob">>, isActive |-> FALSE, age |-> 30,
   skills |-> << <<"Python">>, <<"Django">>, <<"Machine Learning">> >>,
   details |-> [address |-> <<"456 Side St">>, city |-> <<"Shire">>,
                zipCode |-> 54321],
   score |-> Num(100), status |-> Null,
   birthdate |-> NewDate([year |-> 1993, month |-> 8, day |-> 20])]

Charlie ==
  [id |-> 3, name |-> <<"Charlie">>, isActive |-> TRUE, age |-> 28,
   skills |-> << <<"Java">>, <<"Spring Boot">>, <<"Kotlin">> >>,
   details |-> [address |-> <<"789 Circle Dr">>, city |-> <<"Gotham">>,
                zipCode |-> 67890],
   score |-> Num(85), status |-> Undefined,
   birthdate |-> NewDate([year |-> 1995, month |-> 2, day |-> 10])]

\* Mutant: the second record copied from the first without a new id.
ComplexArrayDuplicateId == <<Alice, [Bob EXCEPT !.id = 1], Charlie>>

\* const complexArray: Person[] = [ ... ]
ComplexArrayLiteral == <<Alice, Bob, Charlie>>

\* Further values of type Person, for render over arbitrary records: falsy but
\* present score and status with no skills; and strings that hold markup.
Dana ==
  [id |-> 4, name |-> <<"Dana">>, isActive |-> TRUE, age |-> 41,
   skills |-> << >>,
   details |-> [address |-> <<"1 Low Rd">>, city |-> <<"Delft">>, zipCode |-> 2611],
   score |-> Num(0), status |-> Str(<< >>),
   birthdate |-> NewDate([year |-> 2000, month |-> 3, day |-> 1])]

Eve ==
  [id |-> 2, name |-> <<"Eve">>, isActive |-> FALSE, age |-> 35,
   skills |-> << <<"a", "</li>", "<li>", "b">>, <<"Go">> >>,
   details |-> [address |-> <<"2 High St">>, city |-> <<"Eden">>, zipCode |-> 777],
   score |-> Num(7), status |-> Str(<<"Active">>),
   birthdate |-> NewDate([year |-> 1970, month |-> 1, day |-> 1])]

Finn ==
  [id |-> 6, name |-> <<"Finn">>, isActive |-> TRUE, age |-> 19,
   skills |-> << <<"Rust">> >>,
   details |-> [address |-> <<"3 Mill Ln">>, city |-> <<"Ooo">>, zipCode |-> 31],
   score |-> Null, status |-> Str(<<"on leave", "</li>">>),
   birthdate |-> NewDate([year |-> 2004, month |-> 12, day |-> 31])]

Grace ==
  [id |-> 7, name |-> <<"<li>", "Grace">>, isActive |-> TRUE, age |-> 52,
   skills |-> << <<"COBOL">>, <<"COBOL">> >>,
   details |-> [address |-> <<"4 Navy Yd">>, city |-> <<"Arlington">>,
                zipCode |-> 22202],
   score |-> Num(100), status |-> Null,
   birthdate |-> NewDate([year |-> 1906, month |-> 12, day |-> 9])]

Persons == {Alice, Bob, Charlie, Dana, Eve, Finn, Grace}

RECURSIVE SeqsUpTo(_, _)
SeqsUpTo(S, n) ==
  IF n = 0 THEN {<< >>}
  ELSE LET shorter == SeqsUpTo(S, n - 1)
       IN  shorter \cup {Append(q, x) : q \in {r \in shorter : Len(r) = n - 1}, x \in S}

\* Host time zones: Etc/GMT+5, UTC, Etc/GMT-2 (minutes east of UTC).
HostTimeZones == {0 - 300, 0, 120}

-----------------------------------------------------------------------------
(* The card template, index.ts:188-200 *)

\* person.skills.map(skill => `<li>${skill}</li>`)
\* Mutant: the entries collected in reverse order.
RECURSIVE MapSkillsReversed(_)
MapSkillsReversed(skills) ==
  IF skills = <<>> THEN <<>>
  ELSE MapSkillsReversed(Tail(skills))
         \o << <<"<li>">> \o Head(skills) \o <<"</li>">> >>

RECURSIVE MapSkills(_)
MapSkills(skills) ==
  IF skills = <<>> THEN <<>>
  ELSE << <<"<li>">> \o Head(skills) \o <<"</li>">> >> \o MapSkills(Tail(skills))

\* array.join('')
RECURSIVE Join(_)
Join(parts) == IF parts = <<>> THEN <<>> ELSE Head(parts) \o Join(Tail(parts))

\* Mutant: `${x}` with the default left out, which prints "null" or "undefined".
WithoutDefault(x) == IF IsNullish(x) THEN <<x.type>> ELSE TemplateString(x)

\* `${x ?? "N/A"}`
OrNA(x) == IF IsNullish(x) THEN <<"N/A">> ELSE TemplateString(x)

\* The template literal assigned to personCard.innerHTML.
CardHTML(person, birthdate) ==
     <<"\n      ", "<h3>">> \o person.name \o <<"</h3>">>
  \o <<"\n      ", "<p>", "<strong>", "Age:", "</strong>", " ">>
  \o NumberToString(person.age) \o <<"</p>">>
  \o <<"\n      ", "<p>", "<strong>", "Address:", "</strong>", " ">>
  \o person.details.address \o <<", ">> \o person.details.city \o <<" ">>
  \o NumberToString(person.details.zipCode) \o <<"</p>">>
  \o <<"\n      ", "<p>", "<strong>", "Status:", "</strong>", " ">>
  \o OrNA(person.status) \o <<"</p>">>
  \o <<"\n      ", "<p>", "<strong>", "Score:", "</strong>", " ">>
  \o OrNA(person.score) \o <<"</p>">>
  \o <<"\n      ", "<p>", "<strong>", "Birthdate:", "</strong>", " ">>
  \o birthdate \o <<"</p>">>
  \o <<"\n      ", "<p>", "<strong>", "Skills:", "</strong>", "</p>">>
  \o <<"\n      ", "<ul class=\"skills\">", "\n        ">>
  \o Join(MapSkills(person.skills))
  \o <<"\n      ", "</ul>">>
  \o <<"\n      ", "<p class=\"greet\">", "<strong>", "Greet:", "</strong>", " ">>
  \o Greet(person) \o <<"</p>", "\n    ">>

-----------------------------------------------------------------------------
(* What a card shows, read back from its DOM subtree *)

\* The paragraph whose <strong> label is the given one: the first p element
\* whose first child is a strong element with that text (0 when none).
LabelledParagraphs(nodes, label) ==
  {n \in 2..Len(nodes) :
     /\ nodes[n].tag = "p"
     /\ nodes[n].kids # <<>>
     /\ nodes[n].kids[1].kind = "element"
     /\ nodes[nodes[n].kids[1].node].tag = "strong"
     /\ TextContent(nodes, nodes[n].kids[1].node) = label}

LabelledParagraph(nodes, label) ==
  IF LabelledParagraphs(nodes, label) = {} THEN 0
  ELSE CHOOSE n \in LabelledParagraphs(nodes, label) :
         \A m \in LabelledParagraphs(nodes, label) : n <= m

\* The text a card shows on the line with the given label ("" when the line
\* is missing).
ShownLine(card, label) ==
  LET n == LabelledParagraph(card.childNodes, label)
  IN  IF n = 0 THEN "" ELSE TextContent(card.childNodes, n)

\* The texts of the entries of the card's skills list: the li children of
\* ul.skills, in document order.
ShownSkills(card) ==
  LET nodes == card.childNodes
      ul == QuerySelector(nodes, "ul", "skills")
      items == IF ul = 0 THEN <<>> ELSE ChildElements(nodes, ul, "li")
  IN  [i \in 1..Len(items) |-> TextContent(nodes, items[i])]

\* The card the callback builds for a person in a host time zone.
CardOf(person, tz) ==
  [tagName |-> "div", classList |-> <<"person-card">>,
   childNodes |->
     ParseFragment(CardHTML(person, <<ToLocaleDateString(person.birthdate, tz)>>))]

-----------------------------------------------------------------------------
(* The script *)

NoCard == [tagName |-> "", classList |-> <<>>, childNodes |-> <<>>]
NoString == <<>>

\* DOMTokenList.add: the token is added unless the list already holds it.
ClassListAdd(list, token) ==
  IF \E i \in 1..Len(list) : list[i] = token THEN list ELSE Append(list, token)

\* Children 'people-list' may hold before the script runs.
Heading ==
  [tagName |-> "h2", classList |-> <<>>,
   childNodes |-> [EmptyTree EXCEPT ![1].kids = <<TextKid("People")>>]]
Note ==
  [tagName |-> "p", classList |-> <<"note">>,
   childNodes |-> [EmptyTree EXCEPT ![1].kids = <<TextKid("Loading")>>]]

Documents ==
  {[hasPeopleList |-> FALSE, children |-> <<>>]}
  \cup {[hasPeopleList |-> TRUE, children |-> c] :
          c \in {<<>>, <<Heading>>, <<Heading, Note>>}}

InitWith(records) ==
  /\ complexArray = records
  /\ timeZoneOffset \in HostTimeZones
  /\ document \in Documents
  /\ preexisting = document.children
  /\ peopleListElement = "unset"
  /\ index = 0
  /\ personCard = NoCard
  /\ formattedBirthdate = NoString
  /\ created = 0
  /\ thrown = FALSE
  /\ pc = "getElementById"

\* The script as written: complexArray is the literal.
Init == InitWith(ComplexArrayLiteral)

\* The render contract over any sequence of records.
InitRender == \E records \in SeqsUpTo(Persons, MaxRecords) : InitWith(records)

\* const peopleListElement = document.getElementById("people-list");
GetElementById ==
  /\ pc = "getElementById"
  /\ peopleListElement' = IF document.hasPeopleList THEN "element" ELSE "null"
  /\ pc' = "if"
  /\ UNCHANGED <<complexArray, timeZoneOffset, document, preexisting, index,
                 personCard, formattedBirthdate, created, thrown>>

\* Mutant: the existence check left out.
IfAlwaysTaken ==
  /\ pc = "if"
  /\ pc' = "forEach"
  /\ UNCHANGED <<complexArray, timeZoneOffset, document, preexisting,
                 peopleListElement, index, personCard, formattedBirthdate,
                 created, thrown>>

\* if (peopleListElement) { ... }
IfPeopleListElement ==
  /\ pc = "if"
  /\ pc' = IF peopleListElement # "null" THEN "forEach" ELSE "done"
  /\ UNCHANGED <<complexArray, timeZoneOffset, document, preexisting,
                 peopleListElement, index, personCard, formattedBirthdate,
                 created, thrown>>

\* Mutant: a loop that stops one element early.
ForEachStopsEarly ==
  /\ pc = "forEach"
  /\ IF index + 1 < Len(complexArray)
     THEN index' = index + 1 /\ pc' = "createElement"
     ELSE index' = index /\ pc' = "done"
  /\ UNCHANGED <<complexArray, timeZoneOffset, document, preexisting,
                 peopleListElement, personCard, formattedBirthdate, created,
                 thrown>>

\* complexArray.forEach((person) => { ... }): the next element, or the end.
ForEach ==
  /\ pc = "forEach"
  /\ IF index < Len(complexArray)
     THEN index' = index + 1 /\ pc' = "createElement"
     ELSE index' = index /\ pc' = "done"
  /\ UNCHANGED <<complexArray, timeZoneOffset, document, preexisting,
                 peopleListElement, personCard, formattedBirthdate, created,
                 thrown>>

\* Mutant: the new element appended to the container as soon as it is created.
CreateElementAppendedAtOnce ==
  /\ pc = "createElement"
  /\ personCard' = [tagName |-> "div", classList |-> <<>>, childNodes |-> EmptyTree]
  /\ document' = [document EXCEPT !.children = Append(@, personCard')]
  /\ created' = created + 1
  /\ pc' = "classListAdd"
  /\ UNCHANGED <<complexArray, timeZoneOffset, preexisting, peopleListElement,
                 index, formattedBirthdate, thrown>>

\* const personCard = document.createElement("div");
CreateElement ==
  /\ pc = "createElement"
  /\ personCard' = [tagName |-> "div", classList |-> <<>>, childNodes |-> EmptyTree]
  /\ created' = created + 1
  /\ pc' = "classListAdd"
  /\ UNCHANGED <<complexArray, timeZoneOffset, document, preexisting,
                 peopleListElement, index, formattedBirthdate, thrown>>

\* personCard.classList.add("person-card");
AddClass ==
  /\ pc = "classListAdd"
  /\ personCard' = [personCard EXCEPT !.classList = ClassListAdd(@, "person-card")]
  /\ pc' = "toLocaleDateString"
  /\ UNCHANGED <<complexArray, timeZoneOffset, document, preexisting,
                 peopleListElement, index, formattedBirthdate, created, thrown>>

\* const formattedBirthdate = person.birthdate.toLocaleDateString("en-GB", {...});
FormatBirthdate ==
  /\ pc = "toLocaleDateString"
  /\ formattedBirthdate' =
       <<ToLocaleDateString(complexArray[index].birthdate, timeZoneOffset)>>
  /\ pc' = "innerHTML"
  /\ UNCHANGED <<complexArray, timeZoneOffset, document, preexisting,
                 peopleListElement, index, personCard, created, thrown>>

\* Mutant: `??=` in place of `??`, which stores the default in the record.
SetInnerHTMLAssigningDefaults ==
  /\ pc = "innerHTML"
  /\ complexArray' =
       [complexArray EXCEPT
          ![index].status = IF IsNullish(@) THEN Str(<<"N/A">>) ELSE @,
          ![index].score = IF IsNullish(@) THEN Str(<<"N/A">>) ELSE @]
  /\ personCard' =
       [personCard EXCEPT !.childNodes =
          ParseFragment(CardHTML(complexArray'[index], formattedBirthdate))]
  /\ pc' = "appendChild"
  /\ UNCHANGED <<timeZoneOffset, document, preexisting, peopleListElement,
                 index, formattedBirthdate, created, thrown>>

\* personCard.innerHTML = `...`;
SetInnerHTML ==
  /\ pc = "innerHTML"
  /\ personCard' =
       [personCard EXCEPT !.childNodes =
          ParseFragment(CardHTML(complexArray[index], formattedBirthdate))]
  /\ pc' = "appendChild"
  /\ UNCHANGED <<complexArray, timeZoneOffset, document, preexisting,
                 peopleListElement, index, formattedBirthdate, created, thrown>>

\* Mutant: replaceChildren in place of appendChild.
ReplaceChildren ==
  /\ pc = "appendChild"
  /\ IF peopleListElement = "null"
     THEN /\ thrown' = TRUE
          /\ pc' = "done"
          /\ UNCHANGED document
     ELSE /\ document' = [document EXCEPT !.children = <<personCard>>]
          /\ pc' = "forEach"
          /\ UNCHANGED thrown
  /\ personCard' = NoCard
  /\ formattedBirthdate' = NoString
  /\ UNCHANGED <<complexArray, timeZoneOffset, preexisting, peopleListElement,
                 index, created>>

\* peopleListElement.appendChild(personCard); a null receiver is a TypeError.
\* The callback then returns and its locals are gone.
AppendChild ==
  /\ pc = "appendChild"
  /\ IF peopleListElement = "null"
     THEN /\ thrown' = TRUE
          /\ pc' = "done"
          /\ UNCHANGED document
     ELSE /\ document' = [document EXCEPT !.children = Append(@, personCard)]
          /\ pc' = "forEach"
          /\ UNCHANGED thrown
  /\ personCard' = NoCard
  /\ formattedBirthdate' = NoString
  /\ UNCHANGED <<complexArray, timeZoneOffset, preexisting, peopleListElement,
                 index, created>>

Next ==
  \/ GetElementById
  \/ IfPeopleListElement
  \/ ForEach
  \/ CreateElement
  \/ AddClass
  \/ FormatBirthdate
  \/ SetInnerHTML
  \/ AppendChild

Spec == Init /\ [][Next]_vars
SpecRender == InitRender /\ [][Next]_vars

-----------------------------------------------------------------------------
(* Properties *)

\* The cards the script has appended: the children after the pre-existing ones.
Appended ==
  SubSeq(document.children, Len(preexisting) + 1, Len(document.children))

\* The script has run to its end with the container present.
Rendered == pc = "done" /\ peopleListElement = "element"

\* A string without markup lexemes.
NoMarkup(str) == \A i \in 1..Len(str) : str[i] \notin (StartTags \cup EndTags)

\* Number of records whose callback has returned.
Completed ==
  IF pc \in {"createElement", "classListAdd", "toLocaleDateString", "innerHTML",
             "appendChild"}
  THEN index - 1 ELSE index

\* C1: when render completes with the container present, the number of cards
\* appended equals the number of records (none for the empty sequence), and the
\* i-th appended card is the card built from the i-th record.
C1_OneCardPerRecordInOrder ==
  Rendered =>
    /\ Len(Appended) = Len(complexArray)
    /\ \A i \in 1..Len(complexArray) :
         Appended[i] = CardOf(complexArray[i], timeZoneOffset)

C1_Witness ==
  /\ Rendered
  /\ Len(complexArray) >= 2
  /\ complexArray[1] # complexArray[2]
  /\ Len(Appended) = Len(complexArray)

\* C2: with the container absent nothing is created, nothing is appended, the
\* document is untouched and no error is raised; with the container present
\* every record is rendered, so the absent container is the only suppression.
C2_AbsentContainerIsNoOp ==
  /\ peopleListElement = "null" =>
       /\ created = 0
       /\ personCard = NoCard
       /\ document.children = preexisting
       /\ Appended = <<>>
       /\ ~thrown
       /\ pc \in {"if", "done"}
  /\ Rendered =>
       /\ created = Len(complexArray)
       /\ Len(Appended) = Len(complexArray)
       /\ ~thrown

C2_Witness ==
  /\ pc = "done"
  /\ peopleListElement = "null"
  /\ Len(complexArray) > 0
  /\ created = 0

\* The text expected on the Status and Score lines of a record's card.
ExpectedOrNA(x) ==
  IF IsNullish(x) THEN "N/A"
  ELSE IF x.type = "number" THEN ToString(x.value)
  ELSE Chars(x.value)

CalendarDate(t) == ToLocaleDateString(t, 0)

\* C4 (as claimed, refuted by the host time zone): every appended card shows the record's calendar date as
\* day, month name and year, and the card of the record born 1998-05-15 shows
\* "15 May 1998".
C4_BirthdateShown ==
  \A i \in 1..Len(Appended) :
    /\ ShownLine(Appended[i], "Birthdate:")
         = "Birthdate: " \o CalendarDate(complexArray[i].birthdate)
    /\ complexArray[i].birthdate = NewDate([year |-> 1998, month |-> 5, day |-> 15])
         => ShownLine(Appended[i], "Birthdate:") = "Birthdate: 15 May 1998"

C6_GreetingShown ==
  \A i \in 1..Len(Appended) :
    ShownLine(Appended[i], "Greet:")
      = "Greet: " \o "Hello, I'm " \o Chars(complexArray[i].name)

C6_Witness ==
  /\ Rendered
  /\ Len(Appended) = 3
  /\ complexArray[1].name # complexArray[2].name
  /\ ShownLine(Appended[2], "Greet:") = "Greet: Hello, I'm Bob"
  /\ ShownLine(Appended[3], "Greet:") = "Greet: Hello, I'm Charlie"

\* C7: no step of the script changes the record sequence.
C7_RecordsNeverMutated == [][complexArray' = complexArray]_vars

C7_Witness ==
  /\ Rendered
  /\ Len(Appended) >= 1
  /\ \E i \in 1..Len(complexArray) : IsNullish(complexArray[i].status)

\* C8: no two positions of the record sequence hold the same id.
C8_IdsUnique ==
  \A i, j \in 1..Len(complexArray) :
    i # j => complexArray[i].id # complexArray[j].id

C8_Witness ==
  /\ Rendered
  /\ Len(complexArray) = 3
  /\ Len(Appended) = 3

\* C9: in every state the cards appended so far are the complete cards of the
\* records whose callback has returned, in record order; the container never
\* holds an empty or partly built card, and each record adds exactly one.
C9_OnlyCompleteCardsOfAPrefix ==
  /\ Len(Appended) = (IF peopleListElement = "element" THEN Completed ELSE 0)
  /\ \A i \in 1..Len(Appended) :
       Appended[i] = CardOf(complexArray[i], timeZoneOffset)

C9_Witness ==
  /\ pc = "innerHTML"
  /\ index = 2
  /\ Len(Appended) = 1
  /\ personCard.childNodes = EmptyTree

\* C10: the children present before the script stay first, unchanged and in
\* order, in every state; at the end the children are those followed by the
\* new cards in record order.
C10_OnlyAppends ==
  /\ Len(document.children) >= Len(preexisting)
  /\ SubSeq(document.children, 1, Len(preexisting)) = preexisting
  /\ Rendered =>
       document.children =
         preexisting \o [i \in 1..Len(complexArray) |->
                           CardOf(complexArray[i], timeZoneOffset)]

C10_Witness ==
  /\ Rendered
  /\ Len(preexisting) = 2
  /\ preexisting[1] # preexisting[2]
  /\ Len(complexArray) >= 1
  /\ Len(document.children) = Len(preexisting) + Len(complexArray)

-----------------------------------------------------------------------------
(* C3, C5 and C6 over arbitrary records (SpecRender).  The literal array    *)
(* holds no markup.  For other records the statements hold as long as the    *)
(* strings hold no markup; a string with markup is interpolated unescaped    *)
(* into innerHTML and parsed, which no run of the script as written does.    *)

PlainStatus(person) ==
  person.status.type = "string" => NoMarkup(person.status.value)

PlainSkills(person) ==
  \A k \in 1..Len(person.skills) : NoMarkup(person.skills[k])

StatusAndScoreShownIfPlain ==
  \A i \in 1..Len(Appended) :
    PlainStatus(complexArray[i]) =>
      /\ ShownLine(Appended[i], "Status:")
           = "Status: " \o ExpectedOrNA(complexArray[i].status)
      /\ ShownLine(Appended[i], "Score:")
           = "Score: " \o ExpectedOrNA(complexArray[i].score)

OneEntryPerSkillIfPlain ==
  \A i \in 1..Len(Appended) :
    PlainSkills(complexArray[i]) =>
      ShownSkills(Appended[i])
        = [k \in 1..Len(complexArray[i].skills) |-> Chars(complexArray[i].skills[k])]

GreetingShownIfPlain ==
  \A i \in 1..Len(Appended) :
    NoMarkup(complexArray[i].name) =>
      ShownLine(Appended[i], "Greet:")
        = "Greet: " \o "Hello, I'm " \o Chars(complexArray[i].name)

BirthdateShownInUTC ==
  timeZoneOffset >= 0 =>
    \A i \in 1..Len(Appended) :
      ShownLine(Appended[i], "Birthdate:")
        = "Birthdate: " \o CalendarDate(complexArray[i].birthdate)

====
